---- MODULE Spec2Model ----
(***************************************************************************)
(* Model of the a1 workload driver of CSC301-Java-API:                     *)
(*   - a1/workload_parser.py : parse_workload, the scripted workload       *)
(*     interpreter, run once over one workload file;                       *)
(*   - a1/sender.py          : run_test, the concurrent load generator.    *)
(* The two programs are independent; each has its own specification        *)
(* (Spec for the interpreter, LoadSpec for the load generator).            *)
(***************************************************************************)
EXTENDS Integers, Sequences, FiniteSets, TLC

(***************************************************************************)
(* Bounds of the model.                                                    *)
(***************************************************************************)
\* longest workload file, in lines
MaxLines == 3
\* number of worker threads of the load generator
NumThreads == 2
\* iterations of task()'s while loop the workers start, all together, before
\* the deadline of a run of run_test; a short run has one fewer, a long run
\* one more
MaxAttempts == 3

VARIABLES
  \* ---- workload_parser.py ----
  workload,    \* the lines of the workload file, in file order
  idx,         \* number of lines the for loop has taken from the file
  pc,          \* "loop" | "returned" | "raised"
  exc,         \* the uncaught exception that ended parse_workload, or "none"
  locals,      \* parse_workload's locals line, parts, service, command
  calls,       \* the calls parse_workload has made, in order: records
               \* [line, fn, ...] with fn the function called for line `line`
  \* ---- sender.py ----
  user_id, product_id, order_id,   \* the module's shared id counters
  global_success, global_fail,     \* the module's per-service result counters
  tpc,         \* per worker: position in task() / send_request()
  tservice,    \* per worker: the service picked by random.choice
  tsuccess,    \* per worker: the value send_request returned
  ttmp,        \* per worker: the value read by the pending "+= 1"
  treq,        \* per worker: the request send_request has built
  started,     \* iterations of the while loop started, all workers together
  attempts,    \* per service: calls of send_request that have returned
  tstatus,     \* per worker: how the send_request that just returned ended
  issued,      \* per service: the ids put in create / place order payloads
  budget,      \* loop iterations the deadline lets the workers start
  \* ---- workload_parser.py, send_shutdown_requests ----
  sd_pc,       \* "idle" | "loop" | "returned" | "raised"
  sd_done,     \* number of services the for loop has handled
  sd_posts     \* the requests.post calls made, in order: [service, outcome,
               \* logged], logged when "Failed to shut down" was printed

parserVars == <<workload, idx, pc, exc, locals, calls>>
loadVars == <<user_id, product_id, order_id, global_success, global_fail,
              tpc, tservice, tsuccess, ttmp, treq, started, attempts,
              tstatus, issued, budget>>
shutdownVars == <<sd_pc, sd_done, sd_posts>>
vars == <<workload, idx, pc, exc, locals, calls,
          user_id, product_id, order_id, global_success, global_fail,
          tpc, tservice, tsuccess, ttmp, treq, started, attempts,
          tstatus, issued, budget,
          sd_pc, sd_done, sd_posts>>

(***************************************************************************)
(* workload_parser.py                                                      *)
(*                                                                         *)
(* A raw line is a sequence of items: a word (a maximal run of non-blank   *)
(* characters) or " " (a run of whitespace, the trailing newline           *)
(* included).                                                              *)
(***************************************************************************)

\* the words of the model that begin with the character '#'
HashWords == {"#", "#note"}

\* the raw lines a workload file of the model is made of
Lines ==
  { <<>>,
    <<" ">>,
    <<"#", " ", "note">>,
    <<" ", "#note">>,
    <<"restart">>,
    <<"shutdown">>,
    <<"Restart", " ">>,
    <<"USER", " ", "get", " ", "5">>,
    <<" ", "user", " ", "Get", " ", "5", " ">>,
    <<"USER", " ", "get", " ", "abc">>,
    <<"USER", " ", "create", " ", "1", " ", "bob", " ", "b@x", " ", "pw">>,
    <<"PRODUCT", " ", "create", " ", "7", " ", "widget", " ", "thing", " ",
      "9.99", " ", "3">>,
    <<"PRODUCT", " ", "bogus", " ", "7">>,
    <<"PRODUCT", " ", "info", " ", "7">>,
    <<"USER", " ", "update", " ", "4", " ", "price:12.5">>,
    <<"PRODUCT", " ", "update", " ", "4", " ", "price:12.5", " ",
      "quantity:2">>,
    <<"USER", " ", "delete", " ", "5">>,
    <<"PRODUCT", " ", "delete", " ", "7">>,
    <<"ORDER", " ", "place", " ", "1", " ", "2">>,
    <<"ORDER", " ", "place", " ", "1", " ", "2", " ", "3">>,
    <<"FOO", " ", "bar">> }

\* every workload file of at most MaxLines lines
Workloads == UNION { [1..n -> Lines] : n \in 0..MaxLines }

RECURSIVE LStrip(_)
LStrip(s) == IF s = <<>> THEN s
             ELSE IF Head(s) = " " THEN LStrip(Tail(s)) ELSE s

RECURSIVE RStrip(_)
RStrip(s) == IF s = <<>> THEN s
             ELSE IF s[Len(s)] = " " THEN RStrip(SubSeq(s, 1, Len(s) - 1))
             ELSE s

\* str.strip()
Strip(s) == RStrip(LStrip(s))

\* str.startswith("#")
StartsWithHash(s) == s # <<>> /\ Head(s) \in HashWords

\* str.split(): the words of the line, whitespace dropped
Split(s) == SelectSeq(s, LAMBDA c : c # " ")

\* str.upper()
Upper(w) ==
  CASE w = "user" -> "USER"
    [] w = "product" -> "PRODUCT"
    [] w = "order" -> "ORDER"
    [] w = "restart" -> "RESTART"
    [] w = "Restart" -> "RESTART"
    [] w = "shutdown" -> "SHUTDOWN"
    [] w = "#note" -> "#NOTE"
    [] OTHER -> w

\* str.lower()
Lower(w) ==
  CASE w = "Get" -> "get"
    [] w = "Restart" -> "restart"
    [] w = "USER" -> "user"
    [] w = "PRODUCT" -> "product"
    [] w = "ORDER" -> "order"
    [] w = "FOO" -> "foo"
    [] OTHER -> w

\* the names bound in the module's global namespace while parse_workload
\* runs from the __main__ block: imports, BASE_DIR, the functions, and the
\* three names the __main__ block assigns before the call
ModuleGlobals ==
  { "json", "sys", "os", "requests", "BASE_DIR",
    "load_config", "parse_workload", "send_shutdown_requests",
    "notify_restart", "send_request",
    "workload_file", "config_file", "config" }

\* the names parse_workload assigns anywhere in its body (its local names)
ParseWorkloadLocals ==
  { "workload_file", "config", "f", "line", "parts", "service", "command",
    "preserve_data", "url", "payload", "field", "key", "value" }

\* a name that is not local to parse_workload is looked up in the module's
\* globals (no builtin carries any of the names used); unbound: NameError
NameResolves(name) ==
  name \notin ParseWorkloadLocals /\ name \in ModuleGlobals

Unbound == "<unbound>"

NoLocals == [line |-> Unbound, parts |-> Unbound,
             service |-> Unbound, command |-> Unbound]

ParserInit ==
  /\ workload \in Workloads
  /\ idx = 0
  /\ pc = "loop"
  /\ exc = "none"
  /\ locals = NoLocals
  /\ calls = <<>>

\* the for loop has a next line: line = line.strip()
HasNext == pc = "loop" /\ idx < Len(workload)

NextLine == Strip(workload[idx + 1])

\* a faulty skip that hands the blank or comment line to send_request
SkipLineSending ==
  /\ HasNext
  /\ NextLine = <<>> \/ StartsWithHash(NextLine)
  /\ idx' = idx + 1
  /\ locals' = [locals EXCEPT !.line = NextLine]
  /\ calls' = Append(calls, [line |-> idx + 1, fn |-> "send_request"])
  /\ UNCHANGED <<workload, pc, exc>>
  /\ UNCHANGED loadVars
  /\ UNCHANGED shutdownVars

\* lines 24-26: an empty line or a comment is printed and skipped
SkipLine ==
  /\ HasNext
  /\ NextLine = <<>> \/ StartsWithHash(NextLine)
  /\ idx' = idx + 1
  /\ locals' = [locals EXCEPT !.line = NextLine]
  /\ UNCHANGED <<workload, pc, exc, calls>>
  /\ UNCHANGED loadVars
  /\ UNCHANGED shutdownVars

\* lines 29-31: parts[1] of a one-word line raises IndexError, which nothing
\* catches: it ends parse_workload
RaiseIndexError ==
  /\ HasNext
  /\ ~(NextLine = <<>> \/ StartsWithHash(NextLine))
  /\ Len(Split(NextLine)) < 2
  /\ idx' = idx + 1
  /\ locals' = [locals EXCEPT !.line = NextLine,
                              !.parts = Split(NextLine),
                              !.service = Upper(Split(NextLine)[1])]
  /\ pc' = "raised"
  /\ exc' = "IndexError"
  /\ UNCHANGED <<workload, calls>>
  /\ UNCHANGED loadVars
  /\ UNCHANGED shutdownVars

\* lines 29-34: a line of two words or more reaches `"shutdown" in lines`;
\* the name lines is bound nowhere, so the test raises NameError, which
\* nothing catches: it ends parse_workload before any statement of
\* lines 35-143 runs
RaiseNameError ==
  /\ HasNext
  /\ ~(NextLine = <<>> \/ StartsWithHash(NextLine))
  /\ Len(Split(NextLine)) >= 2
  /\ ~NameResolves("lines")
  /\ idx' = idx + 1
  /\ locals' = [line |-> NextLine,
                parts |-> Split(NextLine),
                service |-> Upper(Split(NextLine)[1]),
                command |-> Lower(Split(NextLine)[2])]
  /\ pc' = "raised"
  /\ exc' = "NameError"
  /\ UNCHANGED <<workload, calls>>
  /\ UNCHANGED loadVars
  /\ UNCHANGED shutdownVars

\* the for loop is exhausted: the with block closes the file and
\* parse_workload returns None
EndOfFile ==
  /\ pc = "loop"
  /\ idx = Len(workload)
  /\ pc' = "returned"
  /\ UNCHANGED <<workload, idx, exc, locals, calls>>
  /\ UNCHANGED loadVars
  /\ UNCHANGED shutdownVars

(***************************************************************************)
(* sender.py                                                               *)
(***************************************************************************)
Threads == 1..NumThreads

\* services[i]["name"]
ServiceNames == {"UserService", "ProductService", "OrderService"}

\* the status codes a service of the model answers with: a 2xx and a 4xx of
\* the allow-list, and a code outside it
StatusCodes == {200, 404, 500}

\* status codes is_successful is evaluated on
CodeSample == {200, 201, 204, 301, 400, 401, 403, 404, 409, 500, 503}

\* a faulty classification that takes only 2xx for a success
is_successful_2xx(status_code) == status_code \in {200, 201, 204}

is_successful(status_code) == status_code \in {200, 400, 401, 404, 409}

Max(a, b) == IF a >= b THEN a ELSE b

\* the shared id counter send_request uses for a service
Counter(s) ==
  CASE s = "UserService" -> user_id
    [] s = "ProductService" -> product_id
    [] s = "OrderService" -> order_id

\* send_request has no request (not called, or returned)
NoReq == [method |-> "none"]

\* how a call of send_request ended: with the response of an HTTP call, by
\* an exception of the HTTP call, or skipped without an HTTP call
Responded(code) == [kind |-> "response", code |-> code]

Raised == [kind |-> "raised", code |-> 0]

Skipped == [kind |-> "skipped", code |-> 0]

NoStatus == [kind |-> "none", code |-> 0]

\* module level of sender.py, and run_test entered with a duration that lets
\* n loop iterations start
RunInit(n) ==
  /\ budget = n
  /\ user_id = 1
  /\ product_id = 1
  /\ order_id = 1
  /\ global_success = [s \in ServiceNames |-> 0]
  /\ global_fail = [s \in ServiceNames |-> 0]
  /\ tpc = [t \in Threads |-> "while"]
  /\ tservice = [t \in Threads |-> "none"]
  /\ tsuccess = [t \in Threads |-> FALSE]
  /\ ttmp = [t \in Threads |-> 0]
  /\ treq = [t \in Threads |-> NoReq]
  /\ started = 0
  /\ attempts = [s \in ServiceNames |-> 0]
  /\ tstatus = [t \in Threads |-> NoStatus]
  /\ issued = [s \in ServiceNames |-> {}]

LoadInit == RunInit(MaxAttempts)

\* task, lines 91-93: the loop test holds; service = random.choice(services)
\* and send_request(service) is called
PickService(t) ==
  /\ tpc[t] = "while"
  /\ started < budget
  /\ \E s \in ServiceNames : tservice' = [tservice EXCEPT ![t] = s]
  /\ tpc' = [tpc EXCEPT ![t] = "send"]
  /\ started' = started + 1
  /\ UNCHANGED <<user_id, product_id, order_id, global_success, global_fail,
                 tsuccess, ttmp, treq, attempts, tstatus, issued, budget>>
  /\ UNCHANGED parserVars
  /\ UNCHANGED shutdownVars

\* task, line 91: time.time() has reached end_time, the loop test fails and
\* the worker ends
ExitTask(t) ==
  /\ tpc[t] = "while"
  /\ tpc' = [tpc EXCEPT ![t] = "done"]
  /\ UNCHANGED <<user_id, product_id, order_id, global_success, global_fail,
                 tservice, tsuccess, ttmp, treq, started, attempts,
                 tstatus, issued, budget>>
  /\ UNCHANGED parserVars
  /\ UNCHANGED shutdownVars

\* send_request returns r to task without an HTTP call (lines 51, 62, 78)
ReturnWithoutCall(t, r) ==
  /\ tsuccess' = [tsuccess EXCEPT ![t] = r]
  /\ tstatus' = [tstatus EXCEPT ![t] = Skipped]
  /\ treq' = [treq EXCEPT ![t] = NoReq]
  /\ attempts' = [attempts EXCEPT ![tservice[t]] = @ + 1]
  /\ tpc' = [tpc EXCEPT ![t] = "count"]

\* a faulty range that reaches the id the next create will use
IdRangeOffByOne(counter) == 1..Max(1, counter)

\* the ids random.randint(1, max(1, counter - 1)) draws from (lines 55, 56,
\* 72, 74, 76)
IdRange(counter) == 1..Max(1, counter - 1)

\* a faulty guard that skips an order only when neither exists
NoUserOrProductBoth == product_id = 1 /\ user_id = 1

\* line 50: no product or no user was created yet
NoUserOrProduct == product_id = 1 \/ user_id = 1

\* send_request, lines 26-59: random.random() < 0.5, the POST branch builds
\* the create / place order payload from the shared counters; an order is
\* skipped (return True) while no user or no product was created
BuildPost(t) ==
  /\ tpc[t] = "send"
  /\ LET s == tservice[t] IN
     IF s = "OrderService" /\ NoUserOrProduct
     THEN ReturnWithoutCall(t, TRUE) /\ UNCHANGED issued
     ELSE
       /\ IF s = "OrderService"
          THEN \E p \in IdRange(product_id) :
               \E u \in IdRange(user_id) :
                 treq' = [treq EXCEPT ![t] =
                            [method |-> "POST", command |-> "place order",
                             id |-> [str |-> order_id],
                             product_id |-> p, user_id |-> u]]
          ELSE treq' = [treq EXCEPT ![t] =
                          [method |-> "POST", command |-> "create",
                           id |-> Counter(s)]]
       /\ issued' = [issued EXCEPT ![s] = @ \cup {Counter(s)}]
       /\ tpc' = [tpc EXCEPT ![t] = "inc_read"]
       /\ UNCHANGED <<tsuccess, attempts, tstatus>>
  /\ UNCHANGED <<user_id, product_id, order_id, global_success, global_fail,
                 tservice, ttmp, started, budget>>
  /\ UNCHANGED parserVars
  /\ UNCHANGED shutdownVars

\* send_request, lines 37, 48, 60: `counter += 1` loads the global ...
IncRead(t) ==
  /\ tpc[t] = "inc_read"
  /\ ttmp' = [ttmp EXCEPT ![t] = Counter(tservice[t])]
  /\ tpc' = [tpc EXCEPT ![t] = "inc_write"]
  /\ UNCHANGED <<user_id, product_id, order_id, global_success, global_fail,
                 tservice, tsuccess, treq, started, attempts,
                 tstatus, issued, budget>>
  /\ UNCHANGED parserVars
  /\ UNCHANGED shutdownVars

\* a faulty store that writes back one less than it loaded
IncStoredLess(t) == ttmp[t] - 1

\* the value `counter += 1` stores: one more than it loaded
IncStored(t) == ttmp[t] + 1

\* ... and stores the loaded value plus one
IncWrite(t) ==
  /\ tpc[t] = "inc_write"
  /\ user_id' = IF tservice[t] = "UserService" THEN IncStored(t) ELSE user_id
  /\ product_id' = IF tservice[t] = "ProductService" THEN IncStored(t)
                   ELSE product_id
  /\ order_id' = IF tservice[t] = "OrderService" THEN IncStored(t)
                 ELSE order_id
  /\ ttmp' = [ttmp EXCEPT ![t] = 0]
  /\ tpc' = [tpc EXCEPT ![t] = "http"]
  /\ UNCHANGED <<global_success, global_fail, tservice, tsuccess, treq,
                 started, attempts, tstatus, issued, budget>>
  /\ UNCHANGED parserVars
  /\ UNCHANGED shutdownVars

\* send_request, lines 69-76: the GET branch reads a random id in
\* 1..max(1, counter - 1)
BuildGet(t) ==
  /\ tpc[t] = "send"
  /\ \E i \in IdRange(Counter(tservice[t])) :
       treq' = [treq EXCEPT ![t] = [method |-> "GET", id |-> i]]
  /\ tpc' = [tpc EXCEPT ![t] = "http"]
  /\ UNCHANGED <<user_id, product_id, order_id, global_success, global_fail,
                 tservice, tsuccess, ttmp, started, attempts,
                 tstatus, issued, budget>>
  /\ UNCHANGED parserVars
  /\ UNCHANGED shutdownVars

\* send_request returns to task after the HTTP call: status is <<code>> of the
\* response, or <<>> when requests raised (lines 64-68, 80-84)
HttpReturn(t, status) ==
  /\ tsuccess' = [tsuccess EXCEPT ![t] =
                    IF status = <<>> THEN FALSE ELSE is_successful(status[1])]
  /\ tstatus' = [tstatus EXCEPT ![t] =
                   IF status = <<>> THEN Raised ELSE Responded(status[1])]
  /\ treq' = [treq EXCEPT ![t] = NoReq]
  /\ attempts' = [attempts EXCEPT ![tservice[t]] = @ + 1]
  /\ tpc' = [tpc EXCEPT ![t] = "count"]

\* requests.post / requests.get answers with a status code
HttpResponse(t) ==
  /\ tpc[t] = "http"
  /\ \E code \in StatusCodes : HttpReturn(t, <<code>>)
  /\ UNCHANGED <<user_id, product_id, order_id, global_success, global_fail,
                 tservice, ttmp, started, issued, budget>>
  /\ UNCHANGED parserVars
  /\ UNCHANGED shutdownVars

\* requests.post / requests.get raises (refused, timeout): return False
HttpException(t) ==
  /\ tpc[t] = "http"
  /\ HttpReturn(t, <<>>)
  /\ UNCHANGED <<user_id, product_id, order_id, global_success, global_fail,
                 tservice, ttmp, started, issued, budget>>
  /\ UNCHANGED parserVars
  /\ UNCHANGED shutdownVars

\* the counter task updates for the value send_request returned
ResultCounter(t) == IF tsuccess[t] THEN global_success ELSE global_fail

\* task, lines 94-97: `global_x[name] += 1` loads the entry ...
CountRead(t) ==
  /\ tpc[t] = "count"
  /\ ttmp' = [ttmp EXCEPT ![t] = ResultCounter(t)[tservice[t]]]
  /\ tpc' = [tpc EXCEPT ![t] = "count_write"]
  /\ tstatus' = [tstatus EXCEPT ![t] = NoStatus]
  /\ UNCHANGED <<user_id, product_id, order_id, global_success, global_fail,
                 tservice, tsuccess, treq, started, attempts, issued, budget>>
  /\ UNCHANGED parserVars
  /\ UNCHANGED shutdownVars

\* a faulty store that counts the attempt twice
CountStoredTwice(t) == ttmp[t] + 2

\* the value `global_x[name] += 1` stores: one more than it loaded
CountStored(t) == ttmp[t] + 1

\* ... and stores the loaded value plus one; the loop starts over
CountWrite(t) ==
  /\ tpc[t] = "count_write"
  /\ global_success' = IF tsuccess[t]
                       THEN [global_success EXCEPT ![tservice[t]] = CountStored(t)]
                       ELSE global_success
  /\ global_fail' = IF tsuccess[t]
                    THEN global_fail
                    ELSE [global_fail EXCEPT ![tservice[t]] = CountStored(t)]
  /\ ttmp' = [ttmp EXCEPT ![t] = 0]
  /\ tsuccess' = [tsuccess EXCEPT ![t] = FALSE]
  /\ tservice' = [tservice EXCEPT ![t] = "none"]
  /\ tpc' = [tpc EXCEPT ![t] = "while"]
  /\ UNCHANGED <<user_id, product_id, order_id, treq, started, attempts,
                 tstatus, issued, budget>>
  /\ UNCHANGED parserVars
  /\ UNCHANGED shutdownVars

\* run_test, lines 99-106: the executor's with block has joined every worker
AllDone == \A t \in Threads : tpc[t] = "done"

(***************************************************************************)
(* workload_parser.py, send_shutdown_requests(config), called with a       *)
(* config that holds the four service entries.                             *)
(***************************************************************************)

\* line 147: the services list
ShutdownServices ==
  <<"UserService", "ProductService", "OrderService",
    "InterServiceCommunication">>

\* the ways requests.post(url) raises a RequestException
PostFailures == {"refused", "timeout"}

\* send_shutdown_requests is not running
ShutdownIdle ==
  /\ sd_pc = "idle"
  /\ sd_done = 0
  /\ sd_posts = <<>>

\* send_shutdown_requests(config) is entered
ShutdownInit ==
  /\ sd_pc = "loop"
  /\ sd_done = 0
  /\ sd_posts = <<>>

\* lines 148-152: the next service is posted to and answers
ShutdownPostAnswered ==
  /\ sd_pc = "loop"
  /\ sd_done < Len(ShutdownServices)
  /\ sd_posts' = Append(sd_posts,
                        [service |-> ShutdownServices[sd_done + 1],
                         outcome |-> "response", logged |-> FALSE])
  /\ sd_done' = sd_done + 1
  /\ UNCHANGED sd_pc
  /\ UNCHANGED parserVars
  /\ UNCHANGED loadVars

\* a faulty failure path without the try/except: the exception ends the call
ShutdownPostFailedRaising ==
  /\ sd_pc = "loop"
  /\ sd_done < Len(ShutdownServices)
  /\ \E f \in PostFailures :
       sd_posts' = Append(sd_posts,
                          [service |-> ShutdownServices[sd_done + 1],
                           outcome |-> f, logged |-> FALSE])
  /\ sd_done' = sd_done + 1
  /\ sd_pc' = "raised"
  /\ UNCHANGED parserVars
  /\ UNCHANGED loadVars

\* lines 148-154: requests.post raises a RequestException; it is caught,
\* "Failed to shut down" is printed and the loop goes on
ShutdownPostFailed ==
  /\ sd_pc = "loop"
  /\ sd_done < Len(ShutdownServices)
  /\ \E f \in PostFailures :
       sd_posts' = Append(sd_posts,
                          [service |-> ShutdownServices[sd_done + 1],
                           outcome |-> f, logged |-> TRUE])
  /\ sd_done' = sd_done + 1
  /\ UNCHANGED sd_pc
  /\ UNCHANGED parserVars
  /\ UNCHANGED loadVars

\* the for loop is exhausted: send_shutdown_requests returns None
ShutdownReturn ==
  /\ sd_pc = "loop"
  /\ sd_done = Len(ShutdownServices)
  /\ sd_pc' = "returned"
  /\ UNCHANGED <<sd_done, sd_posts>>
  /\ UNCHANGED parserVars
  /\ UNCHANGED loadVars

(***************************************************************************)
(* Specifications.                                                         *)
(***************************************************************************)

\* no workload is being interpreted
ParserIdle ==
  /\ workload = <<>>
  /\ idx = 0
  /\ pc = "returned"
  /\ exc = "none"
  /\ locals = NoLocals
  /\ calls = <<>>

\* python workload_parser.py <workload file>
Init == ParserInit /\ LoadInit /\ ShutdownIdle

Next ==
  \/ SkipLine
  \/ RaiseIndexError
  \/ RaiseNameError
  \/ EndOfFile

Spec == Init /\ [][Next]_vars

\* python sender.py
LoadSpecInit == ParserIdle /\ LoadInit /\ ShutdownIdle

LoadNext ==
  \/ \E t \in Threads : PickService(t)
  \/ \E t \in Threads : ExitTask(t)
  \/ \E t \in Threads : BuildPost(t)
  \/ \E t \in Threads : IncRead(t)
  \/ \E t \in Threads : IncWrite(t)
  \/ \E t \in Threads : BuildGet(t)
  \/ \E t \in Threads : HttpResponse(t)
  \/ \E t \in Threads : HttpException(t)
  \/ \E t \in Threads : CountRead(t)
  \/ \E t \in Threads : CountWrite(t)

LoadSpec == LoadSpecInit /\ [][LoadNext]_vars

\* python sender.py, with a duration that lets one more iteration start
LongRunInit == ParserIdle /\ RunInit(MaxAttempts + 1) /\ ShutdownIdle

LongRunSpec == LongRunInit /\ [][LoadNext]_vars

\* python sender.py, with a duration that lets one iteration fewer start
ShortRunInit == ParserIdle /\ RunInit(MaxAttempts - 1) /\ ShutdownIdle

ShortRunSpec == ShortRunInit /\ [][LoadNext]_vars

\* send_shutdown_requests(config)
ShutdownSpecInit == ParserIdle /\ LoadInit /\ ShutdownInit

ShutdownNext ==
  \/ ShutdownPostAnswered
  \/ ShutdownPostFailed
  \/ ShutdownReturn

ShutdownSpec == ShutdownSpecInit /\ [][ShutdownNext]_vars

(***************************************************************************)
(* Vocabulary of the workload format (spec sections 4.1 and 6), used to    *)
(* state the properties of parse_workload.                                 *)
(***************************************************************************)

\* the words of a raw line
Words(l) == Split(Strip(l))

\* a substantive line: neither blank nor a comment
Substantive(l) == Strip(l) # <<>> /\ ~StartsWithHash(Strip(l))

\* a control line: its first word, lower-cased, is kind
IsControl(l, kind) == Substantive(l) /\ Lower(Words(l)[1]) = kind

IsRestart(l) == IsControl(l, "restart")

IsShutdown(l) == IsControl(l, "shutdown")

\* the words int() accepts, and those float() accepts
IntTokens == {"1", "2", "3", "4", "5", "7"}

FloatTokens == IntTokens \cup {"9.99", "12.5"}

\* int(w)
IntOf(w) ==
  CASE w = "1" -> 1 [] w = "2" -> 2 [] w = "3" -> 3 [] w = "4" -> 4
    [] w = "5" -> 5 [] w = "7" -> 7

\* float(w), as a number of hundredths
FloatOf(w) ==
  CASE w = "9.99" -> [hundredths |-> 999]
    [] w = "12.5" -> [hundredths |-> 1250]
    [] w \in IntTokens -> [hundredths |-> 100 * IntOf(w)]

\* the words of the form key:value
FieldTokens == {"price:12.5", "quantity:2"}

\* field.split(":"), for a word of the form key:value
SplitColon(w) ==
  CASE w = "price:12.5" -> <<"price", "12.5">>
    [] w = "quantity:2" -> <<"quantity", "2">>

\* the (service, action) pair of a line of two words or more
ServiceAction(l) == <<Upper(Words(l)[1]), Lower(Words(l)[2])>>

\* the (service, action) pairs of the grammar that the line set uses, with
\* the least number of words each requires
RequiredWords(sa) ==
  CASE sa = <<"USER", "create">> -> 6
    [] sa = <<"USER", "get">> -> 3
    [] sa = <<"USER", "update">> -> 3
    [] sa = <<"USER", "delete">> -> 3
    [] sa = <<"PRODUCT", "create">> -> 7
    [] sa = <<"PRODUCT", "update">> -> 3
    [] sa = <<"PRODUCT", "delete">> -> 3
    [] sa = <<"PRODUCT", "info">> -> 3
    [] sa = <<"ORDER", "place">> -> 5
    [] OTHER -> 0

\* a service command with a recognised (service, action) pair
Recognised(l) ==
  /\ Substantive(l)
  /\ ~IsRestart(l) /\ ~IsShutdown(l)
  /\ Len(Words(l)) >= 2
  /\ RequiredWords(ServiceAction(l)) > 0

\* a recognised command with fewer words than its action requires
TooFewWords(l) ==
  Recognised(l) /\ Len(Words(l)) < RequiredWords(ServiceAction(l))

\* a well-formed service command: recognised, of full arity, numeric where
\* the grammar asks for a number
WellFormed(l) ==
  /\ Recognised(l)
  /\ ~TooFewWords(l)
  /\ LET p == Words(l)
         sa == ServiceAction(l)
     IN CASE sa = <<"USER", "create">> -> p[3] \in IntTokens
          [] sa = <<"USER", "get">> -> p[3] \in IntTokens
          [] sa = <<"USER", "delete">> -> p[3] \in IntTokens
          [] sa = <<"USER", "update">> ->
               /\ p[3] \in IntTokens
               /\ \A k \in 4..Len(p) : p[k] \in FieldTokens
          [] sa = <<"PRODUCT", "create">> ->
               p[3] \in IntTokens /\ p[6] \in FloatTokens /\ p[7] \in IntTokens
          [] sa = <<"PRODUCT", "delete">> -> p[3] \in IntTokens
          [] sa = <<"PRODUCT", "info">> -> p[3] \in IntTokens
          [] sa = <<"PRODUCT", "update">> ->
               /\ p[3] \in IntTokens
               /\ \A k \in 4..Len(p) :
                    /\ p[k] \in FieldTokens
                    /\ SplitColon(p[k])[1] = "price"
                       => SplitColon(p[k])[2] \in FloatTokens
                    /\ SplitColon(p[k])[1] = "quantity"
                       => SplitColon(p[k])[2] \in IntTokens
          [] sa = <<"ORDER", "place">> ->
               p[3] \in IntTokens /\ p[4] \in IntTokens /\ p[5] \in IntTokens

\* a line the parser must reject: unknown service or action, wrong arity, or
\* a non-numeric word where a number is required
ParseErrorLine(l) ==
  Substantive(l) /\ ~IsRestart(l) /\ ~IsShutdown(l) /\ ~WellFormed(l)

SubstantiveIdx == { i \in 1..Len(workload) : Substantive(workload[i]) }

\* the least element of a non-empty set of line numbers
Least(S) == CHOOSE i \in S : \A j \in S : i <= j

\* line j is the next substantive line after line i
NextSubstantive(i, j) ==
  /\ i < j
  /\ j \in SubstantiveIdx
  /\ \A k \in (i + 1)..(j - 1) : k \notin SubstantiveIdx

\* the lines that come right after a shutdown line and are not restart
HaltLines ==
  { j \in SubstantiveIdx :
      /\ ~IsRestart(workload[j])
      /\ \E i \in SubstantiveIdx :
           IsShutdown(workload[i]) /\ NextSubstantive(i, j) }

\* the restart lines that come right after a shutdown line
ResumeLines ==
  { j \in SubstantiveIdx :
      /\ IsRestart(workload[j])
      /\ \E i \in SubstantiveIdx :
           IsShutdown(workload[i]) /\ NextSubstantive(i, j) }

\* the positions in calls of the calls of fn made for line i
CallsOf(fn, i) ==
  { k \in 1..Len(calls) : calls[k].fn = fn /\ calls[k].line = i }

\* the positions in calls of all calls of fn
AllCallsOf(fn) == { k \in 1..Len(calls) : calls[k].fn = fn }

\* parse_workload has ended, by return or by an uncaught exception
Finished == pc # "loop"

\* no shutdown line precedes line i
NoShutdownBefore(i) == \A k \in 1..(i - 1) : ~IsShutdown(workload[k])

(***************************************************************************)
(* Properties of parse_workload.                                           *)
(***************************************************************************)

\* C1: in a workload where a shutdown line is immediately followed by a line
\* that is not restart, parse_workload halts at that second line: it returns
\* having consumed the lines up to the second line and no more, no line from
\* the second on is dispatched to send_request, and once parse_workload has
\* ended it consumes no line and makes no call.
C1_HaltsAfterShutdown ==
  /\ [](Finished /\ HaltLines # {} =>
          /\ pc = "returned"
          /\ idx = Least(HaltLines)
          /\ \A k \in AllCallsOf("send_request") :
               calls[k].line < Least(HaltLines))
  /\ [][Finished => UNCHANGED <<idx, pc, calls>>]_vars

\* C2: when the first substantive line is not restart, the run invokes the
\* database reset exactly once, and before the first send_request.
C2_ResetOnceBeforeDispatch ==
  Finished /\ SubstantiveIdx # {}
    /\ ~IsRestart(workload[Least(SubstantiveIdx)])
  => /\ Cardinality(AllCallsOf("reset_databases")) = 1
     /\ \A r \in AllCallsOf("reset_databases") :
          \A k \in AllCallsOf("send_request") : r < k

\* C3: when the first substantive line is restart, notify_restart is called
\* for that line and no database reset is called before it.
C3_RestartFirstPreservesData ==
  Finished /\ SubstantiveIdx # {}
    /\ IsRestart(workload[Least(SubstantiveIdx)])
  => \E r \in CallsOf("notify_restart", Least(SubstantiveIdx)) :
       \A k \in AllCallsOf("reset_databases") : r < k

\* C4: a shutdown line immediately followed by a restart line causes exactly
\* one restart call, and the well-formed service commands after the restart
\* are each sent, in file order.
C4_ShutdownRestartResumes ==
  Finished /\ HaltLines = {}
  => \A j \in ResumeLines :
       /\ Cardinality(CallsOf("notify_restart", j)) = 1
       /\ \A i \in (j + 1)..Len(workload) :
            WellFormed(workload[i])
            => Cardinality(CallsOf("send_request", i)) = 1
       /\ \A a, b \in AllCallsOf("send_request") :
            a < b => calls[a].line <= calls[b].line

\* C5: a workload of blank lines, comments, control lines and well-formed
\* service commands ends by a normal return, never by an uncaught exception,
\* and every well-formed service command met before any shutdown is sent.
C5_ValidWorkloadReturns ==
  Finished
    /\ (\A i \in SubstantiveIdx :
          IsRestart(workload[i]) \/ IsShutdown(workload[i])
          \/ WellFormed(workload[i]))
  => /\ pc = "returned"
     /\ exc = "none"
     /\ \A i \in SubstantiveIdx :
          WellFormed(workload[i]) /\ NoShutdownBefore(i)
          => CallsOf("send_request", i) # {}

\* C7: a service command with fewer words than its action requires ends in
\* an arity error (the IndexError of the missing parts[k]) and send_request
\* is not called for it.
C7_ArityErrorNoTransport ==
  \A i \in 1..idx :
    TooFewWords(workload[i])
    => /\ pc = "raised" /\ idx = i /\ exc = "IndexError"
       /\ CallsOf("send_request", i) = {}

\* C8: a parse error is local: in a workload without control lines, no
\* request is sent for a line with a parse error, and the run goes on to the
\* end of the file, sending every well-formed command exactly once.
C8_ParseErrorIsLocal ==
  Finished
    /\ (\E i \in SubstantiveIdx : ParseErrorLine(workload[i]))
    /\ (\A i \in SubstantiveIdx :
          ~IsRestart(workload[i]) /\ ~IsShutdown(workload[i]))
  => /\ pc = "returned"
     /\ idx = Len(workload)
     /\ \A i \in SubstantiveIdx :
          Cardinality(CallsOf("send_request", i))
            = IF WellFormed(workload[i]) THEN 1 ELSE 0

ProductCreateRequest(l) ==
  LET p == Words(l) IN
  [method |-> "POST",
   url |-> [service |-> "ProductService", path |-> "/product"],
   payload |-> [command |-> "create", id |-> IntOf(p[3]), name |-> p[4],
                description |-> p[5], price |-> FloatOf(p[6]),
                quantity |-> IntOf(p[7])]]

\* C10: for a well-formed PRODUCT create line that no control line precedes,
\* exactly one request is built: a POST to the product URL whose payload has
\* command "create", the id, name, description, price and quantity of the
\* line, and no other field.
C10_ProductCreateRequest ==
  Finished
  => \A i \in SubstantiveIdx :
       /\ WellFormed(workload[i])
       /\ ServiceAction(workload[i]) = <<"PRODUCT", "create">>
       /\ \A k \in 1..(i - 1) :
            ~IsRestart(workload[k]) /\ ~IsShutdown(workload[k])
       => /\ Cardinality(CallsOf("send_request", i)) = 1
          /\ \A k \in CallsOf("send_request", i) :
               calls[k].request = ProductCreateRequest(workload[i])

\* no control line precedes line i
NoControlBefore(i) ==
  \A k \in 1..(i - 1) : ~IsRestart(workload[k]) /\ ~IsShutdown(workload[k])

\* the service URL the spec gives for the service word of a command
ServiceUrl(service) ==
  CASE service = "USER" -> [service |-> "UserService", path |-> "/user"]
    [] service = "PRODUCT" ->
         [service |-> "ProductService", path |-> "/product"]
    [] service = "ORDER" -> [service |-> "OrderService", path |-> "/order"]

\* the (service, action) pairs the spec turns into a GET
ReadActions == { <<"USER", "get">>, <<"PRODUCT", "info">> }

\* the command field the spec gives for a (service, action) pair
CommandField(sa) == IF sa = <<"ORDER", "place">> THEN "place order" ELSE sa[2]

\* C11: for a well-formed line that no control line precedes, exactly one
\* request is built; for USER get and PRODUCT info it is a GET of the service
\* URL with /{id} appended and no payload, for every other recognised pair a
\* POST of the bare service URL whose payload's command is the action name
\* ("place order" for ORDER place).
C11_MethodUrlCommand ==
  Finished
  => \A i \in SubstantiveIdx :
       WellFormed(workload[i]) /\ NoControlBefore(i)
       => /\ Cardinality(CallsOf("send_request", i)) = 1
          /\ \A k \in CallsOf("send_request", i) :
               LET sa == ServiceAction(workload[i])
                   p == Words(workload[i])
                   r == calls[k].request
               IN IF sa \in ReadActions
                  THEN /\ r.method = "GET"
                       /\ r.url = [service |-> ServiceUrl(sa[1]).service,
                                   path |-> ServiceUrl(sa[1]).path,
                                   id |-> IntOf(p[3])]
                       /\ r.payload = <<>>
                  ELSE /\ r.method = "POST"
                       /\ r.url = ServiceUrl(sa[1])
                       /\ r.payload.command = CommandField(sa)

\* the key:value fields of an update line, as <<key, value>> pairs
UpdateFields(l) == { SplitColon(Words(l)[k]) : k \in 4..Len(Words(l)) }

\* the value an update line gives for key
FieldValue(l, key) == (CHOOSE kv \in UpdateFields(l) : kv[1] = key)[2]

\* the payload the spec gives for an update line: command, id, and one entry
\* per field; coerce says whether price and quantity become numbers
UpdatePayload(l, coerce) ==
  [f \in {"command", "id"} \cup { kv[1] : kv \in UpdateFields(l) } |->
     CASE f = "command" -> "update"
       [] f = "id" -> IntOf(Words(l)[3])
       [] f = "price" /\ coerce -> FloatOf(FieldValue(l, f))
       [] f = "quantity" /\ coerce -> IntOf(FieldValue(l, f))
       [] OTHER -> FieldValue(l, f)]

\* C12: for a well-formed update line that no control line precedes, exactly
\* one request is built; the payload of PRODUCT update is command "update",
\* the integer id and one entry per field, price as a float, quantity as an
\* integer, any other value as written; the payload of USER update keeps
\* every value as the string written, price and quantity included.
C12_UpdatePayload ==
  Finished
  => \A i \in SubstantiveIdx :
       /\ WellFormed(workload[i])
       /\ ServiceAction(workload[i])[2] = "update"
       /\ NoControlBefore(i)
       => /\ Cardinality(CallsOf("send_request", i)) = 1
          /\ \A k \in CallsOf("send_request", i) :
               calls[k].request.payload
                 = UpdatePayload(workload[i],
                                 ServiceAction(workload[i])[1] = "PRODUCT")

\* C13: a USER delete or PRODUCT delete line that carries only the id and
\* that no control line precedes does not end in an error and yields exactly
\* one POST of the service URL whose payload has command "delete" and the
\* integer id.
C13_DeleteWithIdOnly ==
  \A i \in 1..idx :
    /\ Recognised(workload[i])
    /\ ServiceAction(workload[i])[2] = "delete"
    /\ Len(Words(workload[i])) = 3
    /\ Words(workload[i])[3] \in IntTokens
    /\ NoControlBefore(i)
    => /\ ~(pc = "raised" /\ idx = i)
       /\ Cardinality(CallsOf("send_request", i)) = 1
       /\ \A k \in CallsOf("send_request", i) :
            /\ calls[k].request.method = "POST"
            /\ calls[k].request.url
                 = ServiceUrl(ServiceAction(workload[i])[1])
            /\ calls[k].request.payload.command = "delete"
            /\ calls[k].request.payload.id = IntOf(Words(workload[i])[3])

\* C15: each workload line causes at most one call of send_request; a blank
\* line, a comment line and a restart or shutdown line cause none, and no
\* call made for such a line carries a request.
C15_AtMostOneSendPerLine ==
  \A i \in 1..Len(workload) :
    /\ Cardinality(CallsOf("send_request", i)) <= 1
    /\ ~Substantive(workload[i])
       \/ IsRestart(workload[i]) \/ IsShutdown(workload[i])
       => \A k \in 1..Len(calls) :
            calls[k].line = i => calls[k].fn # "send_request"

\* the run has taken a blank or comment line and then ended on a control
\* line or on a service command
C15_LinesTakenWitness ==
  /\ Finished
  /\ idx >= 2
  /\ \E i \in 1..(idx - 1) : ~Substantive(workload[i])
  /\ Substantive(workload[idx])

\* the restart lines that are neither the first substantive line nor right
\* after a shutdown line
LaterRestartLines ==
  { j \in SubstantiveIdx :
      /\ IsRestart(workload[j])
      /\ j # Least(SubstantiveIdx)
      /\ j \notin ResumeLines }

\* C16: a restart line that is neither the first substantive line nor right
\* after a shutdown invokes the database reset and then the restart, in that
\* order, and the run goes on with the lines after it (to the end of a file
\* in which no shutdown halts the run).
C16_LaterRestartResets ==
  Finished /\ HaltLines = {}
  => /\ LaterRestartLines # {} => idx = Len(workload)
     /\ \A j \in LaterRestartLines :
          \E r \in CallsOf("reset_databases", j) :
            \E n \in CallsOf("notify_restart", j) : r < n

(***************************************************************************)
(* Properties of run_test.                                                 *)
(***************************************************************************)

\* C6 as stated: once all workers have finished, for every service the
\* success counter plus the failure counter equals the number of
\* send_request calls that returned for that service.
C6_CountersEqualAttempts ==
  AllDone => \A s \in ServiceNames :
               global_success[s] + global_fail[s] = attempts[s]

\* C6 as amended: once all workers have finished, for every service the
\* success counter plus the failure counter is at most the number of
\* send_request calls that returned for that service, and at least 1 when
\* there was such a call.
C6_CountersAtMostAttempts ==
  AllDone => \A s \in ServiceNames :
               /\ global_success[s] + global_fail[s] <= attempts[s]
               /\ attempts[s] > 0 => global_success[s] + global_fail[s] >= 1

\* a run has ended in which an increment of a result counter was lost
C6_LostUpdateWitness ==
  /\ AllDone
  /\ \E s \in ServiceNames :
       /\ attempts[s] >= 2
       /\ global_success[s] + global_fail[s] < attempts[s]

\* the status codes the specification lists as successful
AllowList == {200, 400, 401, 404, 409}

\* send_request has returned to worker t and task has not yet counted the
\* attempt
Returned(t) == tpc[t] = "count"

CounterNext(s) ==
  CASE s = "UserService" -> user_id'
    [] s = "ProductService" -> product_id'
    [] s = "OrderService" -> order_id'

\* C18 as stated: under every interleaving of the workers' unsynchronized
\* `counter += 1` updates, the value of each of user_id, product_id and
\* order_id never decreases from one state to the next.
C18_CountersNeverDecrease ==
  [][\A s \in ServiceNames : CounterNext(s) >= Counter(s)]_vars

\* C18 as amended: an id counter changes only when a worker stores the value
\* it loaded from that counter plus one; the stored value is at least 2, so
\* a counter never returns to its initial value 1. The counter decreases
\* when the loaded value is stale: other workers have raised the counter by
\* two or more since the load.
C18_CountersChangeByStores ==
  [][\A s \in ServiceNames :
       CounterNext(s) # Counter(s) =>
         \E t \in Threads :
           /\ tpc[t] = "inc_write"
           /\ tservice[t] = s
           /\ ttmp[t] >= 1
           /\ CounterNext(s) = ttmp[t] + 1]_vars

\* every increment of a service's counter has completed, and the counter is
\* not above an id a create payload already used: a stale store has lowered it
C18_CounterFellBack ==
  \E s \in ServiceNames :
    /\ \A t \in Threads :
         tservice[t] = s => tpc[t] \notin {"inc_read", "inc_write"}
    /\ \E i \in issued[s] : i >= Counter(s)

\* C19 as stated: every GET request built for a service targets an id already
\* used in a create / place order request for that service earlier in the
\* run, from the start of the run on, including before any create.
C19_GetTargetsIssuedId ==
  \A t \in Threads :
    treq[t].method = "GET" => treq[t].id \in issued[tservice[t]]

\* C19 as amended: every GET request built for a service targets id 1 or an
\* id below the value the service's id counter has when the request is built;
\* the id need not have been used in an earlier create / place order request
\* (it is 1 before any create, and racing creates can leave ids unused).
C19_GetTargetsIdBelowCounter ==
  [][\A t \in Threads :
       (treq[t].method = "none" /\ treq'[t].method = "GET") =>
         /\ treq'[t].id >= 1
         /\ treq'[t].id = 1 \/ treq'[t].id < Counter(tservice[t])]_vars

\* a GET request is in flight for id 2, which a create payload has used
C19_GetOfSecondIdWitness ==
  \E t \in Threads :
    /\ treq[t].method = "GET"
    /\ treq[t].id = 2
    /\ 2 \in issued[tservice[t]]

\* worker t builds an order-place request in this step
PlacesOrder(t) ==
  /\ treq[t].method = "none"
  /\ treq'[t].method = "POST"
  /\ treq'[t].command = "place order"

\* C20 as stated: every order-place request built carries a product_id in
\* 1..product_id-1 and a user_id in 1..user_id-1, each of which was already
\* used as the id of an earlier create payload, under every interleaving; no
\* order-place request is built while either counter still is 1.
C20_OrderIdsWereIssued ==
  [][\A t \in Threads :
       PlacesOrder(t) =>
         /\ product_id # 1 /\ user_id # 1
         /\ treq'[t].product_id \in 1..(product_id - 1)
         /\ treq'[t].user_id \in 1..(user_id - 1)
         /\ treq'[t].product_id \in issued["ProductService"]
         /\ treq'[t].user_id \in issued["UserService"]]_vars

\* C20 as amended: every order-place request built carries a product_id in
\* 1..product_id-1 and a user_id in 1..user_id-1, for the counters' values
\* when it is built; no order-place request is built while either counter
\* still is 1, and by then id 1 of a product and id 1 of a user were used in
\* earlier create payloads. A larger id the request carries need not have
\* been used in any create payload.
C20_OrderIdsBelowCounters ==
  [][\A t \in Threads :
       PlacesOrder(t) =>
         /\ product_id # 1 /\ user_id # 1
         /\ treq'[t].product_id \in 1..(product_id - 1)
         /\ treq'[t].user_id \in 1..(user_id - 1)
         /\ 1 \in issued["ProductService"]
         /\ 1 \in issued["UserService"]]_vars

\* an order-place request for product 2 is in flight
C20_OrderOfSecondProductWitness ==
  \E t \in Threads :
    /\ treq[t].method = "POST"
    /\ treq[t].command = "place order"
    /\ treq[t].product_id = 2

(***************************************************************************)
(* Properties of send_shutdown_requests.                                   *)
(***************************************************************************)

\* C17: a call of send_shutdown_requests never ends by an exception, and
\* when it has returned it has posted a shutdown request to each of
\* UserService, ProductService, OrderService and InterServiceCommunication,
\* in that order and once each, whatever requests failed; every failed
\* request was logged.
C17_ShutdownAllEndpoints ==
  /\ sd_pc # "raised"
  /\ Len(sd_posts) = sd_done
  /\ \A i \in 1..Len(sd_posts) :
       /\ sd_posts[i].service = ShutdownServices[i]
       /\ sd_posts[i].outcome \in PostFailures => sd_posts[i].logged
  /\ sd_pc = "returned"
     => { sd_posts[i].service : i \in 1..Len(sd_posts) }
          = { "UserService", "ProductService", "OrderService",
              "InterServiceCommunication" }

\* the call has returned after the request to the first endpoint failed
C17_FailedFirstWitness ==
  /\ sd_pc = "returned"
  /\ sd_posts[1].outcome \in PostFailures
  /\ Len(sd_posts) = 4

====
